---- MODULE Spec2Model ----
(***************************************************************************)
(* Model of the KeyvSqlite store (index.ts): one SQLite table of cache     *)
(* rows shared by the store objects opened on one database file, the       *)
(* clock read by now(), and the queue of purge sweeps deferred with        *)
(* process.nextTick.                                                       *)
(*                                                                         *)
(* Strings that the code matches with LIKE (cache keys, namespaces) are    *)
(* sequences of one-character strings, so that prefix and wildcard         *)
(* matching is computed and not assumed.                                   *)
(***************************************************************************)
EXTENDS Integers, Sequences, FiniteSets, TLC

VARIABLES
  table,      \* the rows of the table, in rowid order
  now,        \* the value new Date().getTime() returns
  pending,    \* timestamps of the purge sweeps queued with process.nextTick
  namespace,  \* namespace[s]: the namespace field of store object s
  opts,       \* the options given to the constructor (iterationLimit)
  iter,       \* the generator object returned by the latest iterator() call
  last,       \* the last public operation and what it returned
  prev,       \* the operation before last, kept when it was a set or a clear
  written,    \* written[k]: the latest set of key k, until k is deleted or cleared
  sqlite,     \* sqlite[s]: the connection of store object s, open or closed
  plan,       \* the order in which the engine runs finderStatement
  uncaught,   \* an exception thrown by a nextTick callback reached the process
  runtime,    \* the globals and the drivers preloaded when the module was imported
  databaseClassCache,  \* the driver class resolved for each driver argument
  schema,     \* the tables of the database and the table its index is on
  tableName   \* tableName[s]: the table store object s was built on

vars == <<table, now, pending, namespace, opts, iter, last, prev, written,
          sqlite, plan, uncaught, runtime, databaseClassCache, schema,
          tableName>>

----------------------------------------------------------------------------
(* Bounds of the model *)

MaxPending == 2
MaxTicks == 2
MaxListLen == 3

(* The clock starts at T0 and advances by TickMs; one TTL unit is one      *)
(* second, so a deadline is hit exactly, missed and passed.                *)
T0 == 5000
TickMs == 1000

\* the page size of iterator() when opts.iterationLimit gives none
DefaultPageSize == 10

----------------------------------------------------------------------------
(* JavaScript and SQLite values *)

\* numbers as JavaScript and SQLite see them: an integer, NaN, Infinity,
\* undefined (an absent argument) and the SQL NULL
Int_(n) == [t |-> "int", n |-> n]
NaN == [t |-> "nan", n |-> 0]
Infinity == [t |-> "inf", n |-> 0]
Absent == [t |-> "undefined", n |-> 0]
Null == [t |-> "null", n |-> 0]

\* the JavaScript undefined as a returned value
Undefined == "undefined"

Stores == {"s1", "s2"}
Vals == {"v1", "v2"}

KA == <<"a">>
KnA == <<"n", ":", "a">>
KNA == <<"N", ":", "a">>
Keys == {KA, KnA, KNA}

NoNamespace == <<>>
Namespaces == {NoNamespace, <<"n">>, <<"_">>}

TTLs == {Absent, Int_(0), Int_(1), Int_(-1), NaN, Infinity}

Keys2 == {KA, KnA}
KeyLists2 == UNION {[1..n -> Keys2] : n \in 0..MaxListLen}

----------------------------------------------------------------------------
(* The SQL engine: the statements the constructor prepares *)

\* the states of a connection, and the store object that was never built
Open == "open"
Closed == "closed"
None == "none"

\* the driver argument of the constructor: "auto", the name of a driver, or
\* a driver class passed directly
Custom == "custom"
DriverNames == {"node:sqlite", "bun:sqlite", "better-sqlite3"}
DriverArgs == DriverNames \cup {"auto", "sqlite3", Custom}

\* no class: a driver that did not load, a cache entry that is not there
NoClass == "null"

\* the module's state after import: the drivers its top-level imports
\* loaded, and the globals Bun and window / WorkerGlobalScope
Runtimes == [isBun : BOOLEAN, isBrowser : BOOLEAN, loaded : SUBSET DriverNames]

\* Node.js with node:sqlite
NodeRuntime == [isBun |-> FALSE, isBrowser |-> FALSE, loaded |-> {"node:sqlite"}]

\* the drivers "auto" tries, in order
BunOrder == <<"bun:sqlite", "better-sqlite3", "node:sqlite">>
NodeOrder == <<"node:sqlite", "better-sqlite3">>

\* mutant: a named driver that did not load is replaced by one that did
LoadSpecificDriverOrOther(rt, driver) ==
  IF driver = Custom THEN Custom
  ELSE IF driver \in DriverNames /\ driver \in rt.loaded THEN driver
  ELSE IF driver \in DriverNames /\ rt.loaded # {}
       THEN CHOOSE d \in rt.loaded : TRUE
  ELSE NoClass

\* loadSpecificDriver(driver): the preloaded class, or NoClass when it throws
LoadSpecificDriver(rt, driver) ==
  IF driver = Custom THEN Custom
  ELSE IF driver \in DriverNames /\ driver \in rt.loaded THEN driver
  ELSE NoClass

\* the first driver of order that loadSpecificDriver returns
FirstLoaded(rt, order) ==
  IF \E i \in 1..Len(order) : order[i] \in rt.loaded
  THEN order[CHOOSE i \in 1..Len(order) :
               /\ order[i] \in rt.loaded
               /\ \A j \in 1..(i - 1) : order[j] \notin rt.loaded]
  ELSE NoClass

\* mutant: "auto" tries the drivers in the order of Node.js in every runtime
LoadDatabaseClassNodeOrder(rt, driver) ==
  IF driver = Custom THEN Custom
  ELSE IF driver # "auto" THEN LoadSpecificDriver(rt, driver)
  ELSE IF rt.isBrowser THEN NoClass
  ELSE FirstLoaded(rt, NodeOrder)

\* loadDatabaseClass(preferredDriver), NoClass when it throws
LoadDatabaseClass(rt, driver) ==
  IF driver = Custom THEN Custom
  ELSE IF driver # "auto" THEN LoadSpecificDriver(rt, driver)
  ELSE IF rt.isBrowser THEN NoClass
  ELSE FirstLoaded(rt, IF rt.isBun THEN BunOrder ELSE NodeOrder)

\* getDatabaseClass(driver): the class returned (NoClass when it throws) and
\* the cache it leaves
GetDatabaseClass(cache, rt, driver) ==
  IF cache[driver] # NoClass THEN [class |-> cache[driver], cache |-> cache]
  ELSE LET class == LoadDatabaseClass(rt, driver)
       IN [class |-> class,
           cache |-> IF class # NoClass THEN [cache EXCEPT ![driver] = class]
                     ELSE cache]

\* where the constructor fails, if it does: creating the directory, opening
\* the database, running the pragmas and the DDL
Faults == {"none", "mkdir", "open", "ddl"}

\* the table option: the default, and another name
DefaultTable == "caches"
TableNames == {DefaultTable, "other"}

\* no table: the store was not built, the index does not exist
NoTable == "no table"

\* the schema of a database no store was built on
NoSchema == [tables |-> {}, idx_expired_caches |-> NoTable]

\* CREATE TABLE IF NOT EXISTS name (...);
\* CREATE INDEX IF NOT EXISTS idx_expired_caches ON name(expiredAt);
\* an index of that name that exists, on whatever table, is left as it is
Ddl(sc, name) ==
  [tables |-> sc.tables \cup {name},
   idx_expired_caches |-> IF sc.idx_expired_caches = NoTable THEN name
                          ELSE sc.idx_expired_caches]

\* mutant: DDL that builds the table anew
CreateTableAnew(t) == <<>>

\* CREATE TABLE IF NOT EXISTS / CREATE INDEX IF NOT EXISTS on a database
\* that holds the rows t
CreateTable(t) == t

\* finderStatement has no ORDER BY: the engine either scans the table in
\* rowid order or, as SQLite does for expiredAt = -1 OR expiredAt > ?, walks
\* the index on expiredAt once for each term of the OR
Plans == {"scan", "index"}

\* statement.run(...) rejects a parameter that is undefined
Binds(v) == v # Undefined

KeysOf(t) == {t[i].cacheKey : i \in 1..Len(t)}

RowOf(t, k) == t[CHOOSE i \in 1..Len(t) : t[i].cacheKey = k]

\* membership of a key in an argument list (json_each over JSON.stringify(args))
InList(k, args) == \E i \in 1..Len(args) : args[i] = k

\* SQLite's LIKE folds the case of ASCII letters
Lower(c) == CASE c = "N" -> "n" [] c = "A" -> "a" [] OTHER -> c

RECURSIVE Like(_, _)
\* str LIKE pat: % matches any run of characters, _ any one character,
\* every other character matches itself without regard to case
Like(str, pat) ==
  IF pat = <<>> THEN str = <<>>
  ELSE IF Head(pat) = "%"
       THEN Like(str, Tail(pat)) \/ (str # <<>> /\ Like(Tail(str), pat))
       ELSE /\ str # <<>>
            /\ (Head(pat) = "_" \/ Lower(Head(pat)) = Lower(Head(str)))
            /\ Like(Tail(str), Tail(pat))

\* binding a JavaScript number: SQLite stores a NaN double as NULL
BindNumber(x) == IF x.t = "nan" THEN Null ELSE x

\* mutant: the sweep without its expiredAt != -1 test
PurgeMatchesAll(e, ts) == e.t = "int" /\ e.n < ts

\* mutant: the sweep also takes the rows whose deadline is its timestamp
PurgeMatchesInclusive(e, ts) == e.t = "int" /\ e.n # -1 /\ e.n <= ts

\* mutant: the sweep takes the rows whose deadline is after its timestamp
PurgeMatchesLater(e, ts) == e.t = "int" /\ e.n # -1 /\ e.n > ts

\* SQL: expiredAt != -1 AND expiredAt < ts   (NULL compares as unknown)
PurgeMatches(e, ts) == e.t = "int" /\ e.n # -1 /\ e.n < ts

\* SQL: expiredAt = -1 OR expiredAt > ts
FinderMatches(e, ts) == (e.t = "int" /\ (e.n = -1 \/ e.n > ts)) \/ e.t = "inf"

\* selectSingleStatement.get(key): the row as a sequence of zero or one row
SelectSingle(t, k) == SelectSeq(t, LAMBDA r : r.cacheKey = k)

\* selectStatement.all(JSON.stringify(args))
SelectIn(t, args) == SelectSeq(t, LAMBDA r : InList(r.cacheKey, args))

\* mutant: INSERT OR IGNORE, which keeps the row that holds the key
InsertOrIgnore(t, row) ==
  IF \E i \in 1..Len(t) : t[i].cacheKey = row.cacheKey THEN t ELSE Append(t, row)

\* mutant: a plain INSERT that keeps the row that holds the key
InsertAlways(t, row) == Append(t, row)

\* updateStatement.run: INSERT OR REPLACE drops the row that holds the key
\* and inserts the new row under a fresh, largest rowid
InsertOrReplace(t, row) ==
  Append(SelectSeq(t, LAMBDA r : r.cacheKey # row.cacheKey), row)

\* mutant: the delete without its WHERE clause
DeleteSingleAll(t, k) == [table |-> <<>>, changes |-> Len(t)]

\* deleteSingleStatement.run(k): the table left, and .changes
DeleteSingle(t, k) ==
  [table |-> SelectSeq(t, LAMBDA r : r.cacheKey # k),
   changes |-> Cardinality({i \in 1..Len(t) : t[i].cacheKey = k})]

\* mutant: a batch delete that counts one change for each argument that
\* names a row, a repeated key included
DeleteInPerArgument(t, args) ==
  [table |-> SelectSeq(t, LAMBDA r : ~InList(r.cacheKey, args)),
   changes |-> Cardinality({i \in 1..Len(args) : args[i] \in KeysOf(t)})]

\* mutant: the batch delete bound to the first key instead of the JSON list
DeleteInFirstOnly(t, args) ==
  [table |-> SelectSeq(t, LAMBDA r : r.cacheKey # args[1]),
   changes |-> Cardinality({i \in 1..Len(t) : t[i].cacheKey = args[1]})]

\* deleteStatement.run(JSON.stringify(args))
DeleteIn(t, args) ==
  [table |-> SelectSeq(t, LAMBDA r : ~InList(r.cacheKey, args)),
   changes |-> Cardinality({i \in 1..Len(t) : InList(t[i].cacheKey, args)})]

\* mutant: a sweep that deletes the first row it matches and stops
PurgeFirst(t, ts) ==
  IF \E i \in 1..Len(t) : PurgeMatches(t[i].expiredAt, ts)
  THEN LET i == CHOOSE i \in 1..Len(t) :
                  /\ PurgeMatches(t[i].expiredAt, ts)
                  /\ \A j \in 1..(i - 1) : ~PurgeMatches(t[j].expiredAt, ts)
       IN SubSeq(t, 1, i - 1) \o SubSeq(t, i + 1, Len(t))
  ELSE t

\* purgeStatement.run(ts)
Purge(t, ts) == SelectSeq(t, LAMBDA r : ~PurgeMatches(r.expiredAt, ts))

\* emptyStatement.run(pattern)
Empty(t, pat) == SelectSeq(t, LAMBDA r : ~Like(r.cacheKey, pat))

----------------------------------------------------------------------------
(* The closures the constructor installs on the store *)

\* mutant: a row counts as expired at its deadline already
IsExpiredInclusive(e, ts) ==
  CASE e.t = "int" -> e.n # -1 /\ e.n <= ts
    [] e.t = "null" -> 0 <= ts
    [] OTHER -> FALSE

\* fetchCaches' test on a row read: data.expiredAt !== -1 && data.expiredAt < ts
\* (JavaScript compares null as 0)
IsExpired(e, ts) ==
  CASE e.t = "int" -> e.n # -1 /\ e.n < ts
    [] e.t = "null" -> 0 < ts
    [] OTHER -> FALSE

\* the rows fetchCaches reads before it filters them: one statement for
\* three keys or more, one statement per key otherwise
RECURSIVE FetchEach(_, _)
FetchEach(t, args) ==
  IF args = <<>> THEN <<>>
  ELSE SelectSingle(t, Head(args)) \o FetchEach(t, Tail(args))

FetchRead(t, args) ==
  IF Len(args) >= 3 THEN SelectIn(t, args) ELSE FetchEach(t, args)

\* mutant: the batch path returns what it read without the expiry filter
FetchCachesBatchUnfiltered(t, args, ts) ==
  LET read == FetchRead(t, args)
  IN [rows |-> IF Len(args) >= 3 THEN read
               ELSE SelectSeq(read, LAMBDA r : ~IsExpired(r.expiredAt, ts)),
      purgeExpired |-> \E i \in 1..Len(read) : IsExpired(read[i].expiredAt, ts)]

\* fetchCaches(...args) at time ts: the rows returned and whether it
\* schedules a purge sweep
FetchCaches(t, args, ts) ==
  LET read == FetchRead(t, args)
  IN [rows |-> SelectSeq(read, LAMBDA r : ~IsExpired(r.expiredAt, ts)),
      purgeExpired |-> \E i \in 1..Len(read) : IsExpired(read[i].expiredAt, ts)]

RECURSIVE DeleteEach(_, _)
DeleteEach(t, args) ==
  IF args = <<>> THEN [table |-> t, changes |-> 0]
  ELSE LET one == DeleteSingle(t, Head(args))
           rest == DeleteEach(one.table, Tail(args))
       IN [table |-> rest.table, changes |-> one.changes + rest.changes]

\* deleteCaches(...args)
DeleteCaches(t, args) ==
  IF Len(args) >= 3 THEN DeleteIn(t, args) ELSE DeleteEach(t, args)

\* expiredAt as updateCaches computes it:
\* ttl != undefined && ttl != 0 ? createdAt + ttl * 1000 : -1
ExpiredAtFor(ttl, createdAt) ==
  CASE ttl.t = "undefined" -> Int_(-1)
    [] ttl.t = "int" -> IF ttl.n # 0 THEN Int_(createdAt + ttl.n * 1000)
                        ELSE Int_(-1)
    [] OTHER -> ttl

\* updateCaches([[key, value]], ttl) at time ts
UpdateCaches(t, k, v, ttl, ts) ==
  InsertOrReplace(t, [cacheKey |-> k, cacheData |-> v, createdAt |-> ts,
                      expiredAt |-> BindNumber(ExpiredAtFor(ttl, ts))])

\* mutant: the pattern built from the namespace without the test for none
ClearPatternPrefixed(ns) == ns \o <<":", "%">>

\* the pattern emptyCaches binds: this.namespace ? `${this.namespace}:%` : "%"
ClearPattern(ns) == IF ns # <<>> THEN ns \o <<":", "%">> ELSE <<"%">>

\* emptyCaches()
EmptyCaches(t, ns) == Empty(t, ClearPattern(ns))

\* the order of the index on expiredAt: -1 first, Infinity last
ExpiresBefore(e1, e2) == e1.t = "int" /\ (e2.t = "inf" \/ (e2.t = "int" /\ e1.n < e2.n))

\* rows in the order of the index on expiredAt, rows of equal expiredAt in
\* rowid order
RECURSIVE ByExpiredAt(_)
ByExpiredAt(rows) ==
  IF rows = <<>> THEN <<>>
  ELSE LET i == CHOOSE i \in 1..Len(rows) :
                  /\ \A j \in 1..Len(rows) :
                       ~ExpiresBefore(rows[j].expiredAt, rows[i].expiredAt)
                  /\ \A j \in 1..(i - 1) :
                       ExpiresBefore(rows[i].expiredAt, rows[j].expiredAt)
       IN <<rows[i]>> \o ByExpiredAt(SubSeq(rows, 1, i - 1)
                                      \o SubSeq(rows, i + 1, Len(rows)))

\* finderStatement.all(pattern, expiredAt, limit, offset) under plan pl: a
\* negative LIMIT is no limit, a negative OFFSET is no offset
Finder(t, pl, pat, expiredAt, limit, offset) ==
  LET found == SelectSeq(t, LAMBDA r : /\ Like(r.cacheKey, pat)
                                       /\ FinderMatches(r.expiredAt, expiredAt))
      hits == IF pl = "index" THEN ByExpiredAt(found) ELSE found
      from == IF offset < 0 THEN 1 ELSE offset + 1
      to == IF limit < 0 \/ from + limit - 1 > Len(hits)
            THEN Len(hits) ELSE from + limit - 1
  IN SubSeq(hits, from, to)

\* the pattern findCaches binds: `${namespace ? `${namespace}:` : ""}%`
FindPattern(ns) == IF ns # <<>> THEN ns \o <<":", "%">> ELSE <<"%">>

\* findCaches(namespace, limit, offset, expiredAt)
FindCaches(t, pl, ns, limit, offset, expiredAt) ==
  Finder(t, pl, FindPattern(ns), expiredAt, limit, offset)

\* mutant: the limit as it parses, 0 included
PageSizeAsParsed(iterationLimit) ==
  IF iterationLimit.t = "int" THEN iterationLimit.n ELSE DefaultPageSize

\* Number.parseInt(this.opts.iterationLimit, 10) || 10
PageSize(iterationLimit) ==
  IF iterationLimit.t = "int" /\ iterationLimit.n # 0
  THEN iterationLimit.n ELSE DefaultPageSize

----------------------------------------------------------------------------
(* The public methods, as functions of the table and the time of the call *)

\* get(key): rows.length == 0 ? undefined : rows[0].cacheData
GetResult(t, k, ts) ==
  LET rows == FetchCaches(t, <<k>>, ts).rows
  IN IF Len(rows) = 0 THEN Undefined ELSE rows[1].cacheData

\* rows.find((row) => row.cacheKey === key) of getMany
FindRow(rows, k) ==
  IF \E j \in 1..Len(rows) : rows[j].cacheKey = k
  THEN rows[CHOOSE j \in 1..Len(rows) :
              /\ rows[j].cacheKey = k
              /\ \A i \in 1..(j - 1) : rows[i].cacheKey # k].cacheData
  ELSE Undefined

\* mutant: getMany returns the data of the rows fetched, in their order
GetManyInRowOrder(t, keys, ts) ==
  LET rows == FetchCaches(t, keys, ts).rows
  IN [i \in 1..Len(rows) |-> rows[i].cacheData]

\* getMany(keys)
GetManyResult(t, keys, ts) ==
  LET rows == FetchCaches(t, keys, ts).rows
  IN [i \in 1..Len(keys) |-> FindRow(rows, keys[i])]

\* delete(key): count == 1
DeleteResult(t, k) == DeleteCaches(t, <<k>>).changes = 1

\* mutant: the count compared with the number of different keys
DeleteManyResultDistinct(t, keys) ==
  DeleteCaches(t, keys).changes = Cardinality({keys[i] : i \in 1..Len(keys)})

\* deleteMany(keys): count == keys.length
DeleteManyResult(t, keys) == DeleteCaches(t, keys).changes = Len(keys)

----------------------------------------------------------------------------
(* The state machine *)

NoOp == [op |-> "none", store |-> "s1", keys |-> <<>>, val |-> Undefined,
         ttl |-> Absent, res |-> Undefined, err |-> FALSE, at |-> 0,
         swept |-> FALSE]

NoWrite == [op |-> "none", val |-> Undefined, ttl |-> Absent, at |-> 0]

NoIter == [st |-> "none", store |-> "s1", ns |-> <<>>, limit |-> 0, time |-> 0,
           offset |-> 0, page |-> <<>>, out |-> <<>>, dirty |-> FALSE,
           queries |-> 0]

\* what the operation before becomes when a new operation is recorded
Shift == IF last.op \in {"set", "clear"} /\ ~last.err
         THEN [last EXCEPT !.swept = FALSE] ELSE NoOp

\* the operation returned res (its promise resolved with res)
Record(op, s, keys, val, ttl, res) ==
  /\ last' = [op |-> op, store |-> s, keys |-> keys, val |-> val, ttl |-> ttl,
              res |-> res, err |-> FALSE, at |-> now, swept |-> FALSE]
  /\ prev' = Shift

\* the operation threw (its promise rejected with the engine's error)
Throw(op, s, keys, val, ttl) ==
  /\ last' = [op |-> op, store |-> s, keys |-> keys, val |-> val, ttl |-> ttl,
              res |-> Undefined, err |-> TRUE, at |-> now, swept |-> FALSE]
  /\ prev' = Shift

\* mutant: no sweep is queued while one is pending
ScheduleOnce(s, purgeExpired) ==
  /\ pending' = IF purgeExpired /\ pending = <<>>
                THEN <<[ts |-> now, store |-> s]>> ELSE pending

\* process.nextTick(() => purgeStatement.run(ts)) when purgeExpired is set
Schedule(s, purgeExpired) ==
  /\ purgeExpired => Len(pending) < MaxPending
  /\ pending' = IF purgeExpired
                THEN Append(pending, [ts |-> now, store |-> s]) ELSE pending

\* a statement that leaves the table as t; iter.dirty notes that the table
\* changed after the iteration fetched its first page
Write(t) ==
  /\ table' = t
  /\ iter' = IF iter.st \in {"open", "done"} /\ t # table
             THEN [iter EXCEPT !.dirty = TRUE] ELSE iter

\* the keys in ks are no longer written
Forget(ks) == written' = [k \in Keys |-> IF k \in ks THEN NoWrite ELSE written[k]]

\* after new KeyvSqlite({iterationLimit}) on a fresh database, before any
\* call, with the plan the engine prepared for finderStatement
InitWith(limits, plans) ==
  /\ table = <<>>
  /\ now = T0
  /\ pending = <<>>
  /\ namespace = [s \in Stores |-> NoNamespace]
  /\ opts \in [iterationLimit : limits]
  /\ iter = NoIter
  /\ last = NoOp
  /\ prev = NoOp
  /\ written = [k \in Keys |-> NoWrite]
  /\ sqlite = [s \in Stores |-> Open]
  /\ plan \in plans
  /\ uncaught = FALSE
  /\ runtime = NodeRuntime
  /\ databaseClassCache =
       [d \in DriverArgs |-> IF d = "auto" THEN "node:sqlite" ELSE NoClass]
  /\ schema = Ddl(NoSchema, DefaultTable)
  /\ tableName = [s \in Stores |-> DefaultTable]

\* the plan SQLite prepares for finderStatement
Init == InitWith({Absent}, {"index"})

\* before any store is built, in any runtime
InitBare ==
  /\ table = <<>>
  /\ now = T0
  /\ pending = <<>>
  /\ namespace = [s \in Stores |-> NoNamespace]
  /\ opts \in [iterationLimit : {Absent}]
  /\ iter = NoIter
  /\ last = NoOp
  /\ prev = NoOp
  /\ written = [k \in Keys |-> NoWrite]
  /\ sqlite = [s \in Stores |-> None]
  /\ plan = "index"
  /\ uncaught = FALSE
  /\ runtime \in {rt \in Runtimes : "bun:sqlite" \in rt.loaded => rt.isBun}
  /\ databaseClassCache = [d \in DriverArgs |-> NoClass]
  /\ schema = NoSchema
  /\ tableName = [s \in Stores |-> NoTable]

\* either plan, for the behaviours that run finderStatement
InitAnyPlan == InitWith({Absent}, Plans)

\* store.namespace = ns, as the Keyv wrapper of the store assigns it
SetNamespace(s, ns) ==
  /\ ~uncaught
  /\ sqlite[s] # None
  /\ tableName[s] = DefaultTable
  /\ namespace' = [namespace EXCEPT ![s] = ns]
  /\ UNCHANGED <<table, now, pending, opts, iter, last, prev, written,
                 sqlite, plan, uncaught, runtime,
                 databaseClassCache, schema,
                 tableName>>

\* mutant: the read runs the purge itself, before it returns
GetPurging(s, k) ==
  /\ ~uncaught
  /\ sqlite[s] = Open
  /\ Record("get", s, <<k>>, Undefined, Absent, GetResult(table, k, now))
  /\ Write(Purge(table, now))
  /\ UNCHANGED <<now, pending, namespace, opts, written, sqlite, plan,
                 uncaught, runtime, databaseClassCache, schema,
                 tableName>>

\* a statement of a closed connection throws when it is run
Get(s, k) ==
  /\ ~uncaught
  /\ sqlite[s] # None
  /\ tableName[s] = DefaultTable
  /\ IF sqlite[s] = Closed
     THEN /\ Throw("get", s, <<k>>, Undefined, Absent)
          /\ UNCHANGED pending
     ELSE /\ Schedule(s, FetchCaches(table, <<k>>, now).purgeExpired)
          /\ Record("get", s, <<k>>, Undefined, Absent, GetResult(table, k, now))
  /\ UNCHANGED <<table, now, namespace, opts, iter, written, sqlite, plan,
                 uncaught, runtime,
                 databaseClassCache, schema,
                 tableName>>

\* with no key, fetchCaches runs no statement at all
GetMany(s, keys) ==
  /\ ~uncaught
  /\ sqlite[s] # None
  /\ tableName[s] = DefaultTable
  /\ IF sqlite[s] = Closed /\ keys # <<>>
     THEN /\ Throw("getMany", s, keys, Undefined, Absent)
          /\ UNCHANGED pending
     ELSE /\ Schedule(s, FetchCaches(table, keys, now).purgeExpired)
          /\ Record("getMany", s, keys, Undefined, Absent,
                    GetManyResult(table, keys, now))
  /\ UNCHANGED <<table, now, namespace, opts, iter, written, sqlite, plan,
                 uncaught, runtime,
                 databaseClassCache, schema,
                 tableName>>

\* mutant: set resolves with the value although updateCaches threw
SetOutcomeResolving(t, conn, k, v, ttl, ts) ==
  IF conn = Closed \/ ~Binds(v)
  THEN [table |-> t, err |-> FALSE]
  ELSE [table |-> UpdateCaches(t, k, v, ttl, ts), err |-> FALSE]

\* set(key, value, ttl): updateCaches runs one statement; what it throws
\* rejects the promise, otherwise the promise resolves with value
SetOutcome(t, conn, k, v, ttl, ts) ==
  IF conn = Closed \/ ~Binds(v)
  THEN [table |-> t, err |-> TRUE]
  ELSE [table |-> UpdateCaches(t, k, v, ttl, ts), err |-> FALSE]

Set(s, k, v, ttl) ==
  /\ ~uncaught
  /\ sqlite[s] # None
  /\ tableName[s] = DefaultTable
  /\ LET done == SetOutcome(table, sqlite[s], k, v, ttl, now)
     IN /\ Write(done.table)
        /\ IF done.err
           THEN /\ Throw("set", s, <<k>>, v, ttl)
                /\ UNCHANGED written
           ELSE /\ Record("set", s, <<k>>, v, ttl, v)
                /\ written' = [written EXCEPT ![k] =
                                 [op |-> "set", val |-> v, ttl |-> ttl, at |-> now]]
  /\ UNCHANGED <<now, pending, namespace, opts, sqlite, plan, uncaught, runtime,
                 databaseClassCache, schema,
                 tableName>>

Delete(s, k) ==
  /\ ~uncaught
  /\ sqlite[s] # None
  /\ tableName[s] = DefaultTable
  /\ IF sqlite[s] = Closed
     THEN /\ Throw("delete", s, <<k>>, Undefined, Absent)
          /\ UNCHANGED <<table, iter, written>>
     ELSE /\ Write(DeleteCaches(table, <<k>>).table)
          /\ Record("delete", s, <<k>>, Undefined, Absent, DeleteResult(table, k))
          /\ Forget({k})
  /\ UNCHANGED <<now, pending, namespace, opts, sqlite, plan, uncaught, runtime,
                 databaseClassCache, schema,
                 tableName>>

\* with no key, deleteCaches runs no statement at all
DeleteMany(s, keys) ==
  /\ ~uncaught
  /\ sqlite[s] # None
  /\ tableName[s] = DefaultTable
  /\ IF sqlite[s] = Closed /\ keys # <<>>
     THEN /\ Throw("deleteMany", s, keys, Undefined, Absent)
          /\ UNCHANGED <<table, iter, written>>
     ELSE /\ Write(DeleteCaches(table, keys).table)
          /\ Record("deleteMany", s, keys, Undefined, Absent,
                    DeleteManyResult(table, keys))
          /\ Forget({keys[i] : i \in 1..Len(keys)})
  /\ UNCHANGED <<now, pending, namespace, opts, sqlite, plan, uncaught, runtime,
                 databaseClassCache, schema,
                 tableName>>

Clear(s) ==
  /\ ~uncaught
  /\ sqlite[s] # None
  /\ tableName[s] = DefaultTable
  /\ IF sqlite[s] = Closed
     THEN /\ Throw("clear", s, <<>>, Undefined, Absent)
          /\ UNCHANGED <<table, iter, written>>
     ELSE /\ Write(EmptyCaches(table, namespace[s]))
          /\ Record("clear", s, <<>>, Undefined, Absent, Undefined)
          /\ Forget({k \in Keys : Like(k, ClearPattern(namespace[s]))})
  /\ UNCHANGED <<now, pending, namespace, opts, sqlite, plan, uncaught, runtime,
                 databaseClassCache, schema,
                 tableName>>

\* iterator(ns): the generator object; its body runs on the first next()
Iterator(s, ns) ==
  /\ ~uncaught
  /\ sqlite[s] # None
  /\ tableName[s] = DefaultTable
  /\ iter' = [NoIter EXCEPT !.st = "new", !.store = s, !.ns = ns]
  /\ UNCHANGED <<table, now, pending, namespace, opts, last, prev, written,
                 sqlite, plan, uncaught, runtime,
                 databaseClassCache, schema,
                 tableName>>

\* mutant: a page shorter than limit ends the iteration when its last entry
\* has been yielded, with no further query
IterAfterNextShortStop(it, t, pl, ts, iterationLimit) ==
  LET started == IF it.st = "new"
                 THEN [it EXCEPT !.st = "open", !.time = ts,
                                 !.limit = PageSize(iterationLimit)]
                 ELSE it
      asks == IF started.page = <<>> THEN 1 ELSE 0
      page == IF started.page # <<>> THEN started.page
              ELSE FindCaches(t, pl, started.ns, started.limit, started.offset,
                              started.time)
  IN IF page = <<>>
     THEN [started EXCEPT !.st = "done", !.queries = @ + asks]
     ELSE [started EXCEPT !.st = IF Tail(page) = <<>>
                                     /\ (started.offset + 1) % started.limit # 0
                                  THEN "done" ELSE "open",
                          !.offset = @ + 1,
                          !.page = Tail(page),
                          !.out = Append(@, <<Head(page).cacheKey,
                                              Head(page).cacheData>>),
                          !.queries = @ + asks]

\* the generator's state after one next(): it reads limit and time on the
\* first pull, fetches a page when none is left (one more find call), and
\* yields one entry or ends
IterAfterNext(it, t, pl, ts, iterationLimit) ==
  LET started == IF it.st = "new"
                 THEN [it EXCEPT !.st = "open", !.time = ts,
                                 !.limit = PageSize(iterationLimit)]
                 ELSE it
      asks == IF started.page = <<>> THEN 1 ELSE 0
      page == IF started.page # <<>> THEN started.page
              ELSE FindCaches(t, pl, started.ns, started.limit, started.offset,
                              started.time)
  IN IF page = <<>>
     THEN [started EXCEPT !.st = "done", !.queries = @ + asks]
     ELSE [started EXCEPT !.offset = @ + 1,
                          !.page = Tail(page),
                          !.out = Append(@, <<Head(page).cacheKey,
                                              Head(page).cacheData>>),
                          !.queries = @ + asks]

\* mutant: a pull queues a sweep when the table holds a row that has expired,
\* as a read does
IterNextPurging(s) ==
  /\ ~uncaught
  /\ sqlite[s] = Open
  /\ s = iter.store
  /\ iter.st \in {"new", "open"}
  /\ iter' = IterAfterNext(iter, table, plan, now, opts.iterationLimit)
  /\ Record("next", s, <<>>, Undefined, Absent,
            IF iter'.st = "done" THEN <<>> ELSE iter'.out[Len(iter'.out)])
  /\ pending' = IF /\ Len(pending) < MaxPending
                   /\ \E i \in 1..Len(table) : IsExpired(table[i].expiredAt, now)
                THEN Append(pending, [ts |-> now, store |-> s]) ELSE pending
  /\ UNCHANGED <<table, now, namespace, opts, written, sqlite, plan,
                 uncaught, runtime, databaseClassCache, schema,
                 tableName>>

\* one iterator.next(): an entry of the page already fetched is yielded
\* without a statement; fetching a page on a closed connection throws, which
\* ends the generator
IterNext(s) ==
  /\ ~uncaught
  /\ sqlite[s] # None
  /\ tableName[s] = DefaultTable
  /\ s = iter.store
  /\ iter.st \in {"new", "open"}
  /\ IF iter.page = <<>> /\ sqlite[s] = Closed
     THEN /\ iter' = [iter EXCEPT !.st = "done"]
          /\ Throw("next", s, <<>>, Undefined, Absent)
     ELSE /\ iter' = IterAfterNext(iter, table, plan, now, opts.iterationLimit)
          /\ Record("next", s, <<>>, Undefined, Absent,
                    IF iter'.st = "done" THEN <<>> ELSE iter'.out[Len(iter'.out)])
  /\ UNCHANGED <<table, now, pending, namespace, opts, written, sqlite, plan,
                 uncaught, runtime,
                 databaseClassCache, schema,
                 tableName>>

\* new KeyvSqlite({table, driver}) for a store that was not built yet, on the
\* database the other stores use: createDatabase (directory, driver class,
\* open), the pragmas and the DDL, each of which may throw
Construct(s, name, driver, fault) ==
  /\ ~uncaught
  /\ sqlite[s] = None
  /\ LET got == GetDatabaseClass(databaseClassCache, runtime, driver)
         args == [table |-> name, driver |-> driver, fault |-> fault]
     IN IF fault = "mkdir"
        THEN /\ Throw("new", s, <<>>, args, Absent)
             /\ UNCHANGED <<table, sqlite, namespace, databaseClassCache,
                            schema, tableName>>
        ELSE /\ databaseClassCache' = got.cache
             /\ IF got.class = NoClass \/ fault # "none"
                THEN /\ Throw("new", s, <<>>, args, Absent)
                     /\ UNCHANGED <<table, sqlite, namespace, schema, tableName>>
                ELSE /\ table' = CreateTable(table)
                     /\ schema' = Ddl(schema, name)
                     /\ tableName' = [tableName EXCEPT ![s] = name]
                     /\ sqlite' = [sqlite EXCEPT ![s] = Open]
                     /\ namespace' = [namespace EXCEPT ![s] = NoNamespace]
                     /\ Record("new", s, <<>>, args, Absent, got.class)
  /\ UNCHANGED <<now, pending, opts, iter, written, plan, uncaught, runtime>>

\* disconnect(): this.sqlite.close()
Disconnect(s) ==
  /\ ~uncaught
  /\ sqlite[s] = Open
  /\ sqlite' = [sqlite EXCEPT ![s] = Closed]
  /\ Record("disconnect", s, <<>>, Undefined, Absent, Undefined)
  /\ UNCHANGED <<table, now, pending, namespace, opts, iter, written, plan,
                 uncaught, runtime,
                 databaseClassCache, schema,
                 tableName>>

\* the callback queued by process.nextTick: purgeStatement.run(ts); nothing
\* catches what the statement throws when its connection has been closed
Sweep ==
  /\ ~uncaught
  /\ pending # <<>>
  /\ IF sqlite[Head(pending).store] = Closed
     THEN /\ uncaught' = TRUE
          /\ UNCHANGED <<table, iter>>
     ELSE /\ Write(Purge(table, Head(pending).ts))
          /\ UNCHANGED uncaught
  /\ pending' = Tail(pending)
  /\ last' = [last EXCEPT !.swept = TRUE]
  /\ UNCHANGED <<now, namespace, opts, prev, written, sqlite, plan, runtime,
                 databaseClassCache, schema,
                 tableName>>

\* time passes
Tick ==
  /\ ~uncaught
  /\ now < T0 + MaxTicks * TickMs
  /\ now' = now + TickMs
  /\ UNCHANGED <<table, pending, namespace, opts, iter, last, prev, written,
                 sqlite, plan, uncaught, runtime,
                 databaseClassCache, schema,
                 tableName>>

----------------------------------------------------------------------------
(* Specifications *)

ShortTTLs == {Absent, Int_(1)}

\* single-key operations of one store
Next ==
  \/ \E k \in Keys2 : Get("s1", k)
  \/ \E k \in Keys2, v \in Vals, ttl \in ShortTTLs : Set("s1", k, v, ttl)
  \/ \E k \in Keys2 : Delete("s1", k)
  \/ Clear("s1")
  \/ Sweep
  \/ Tick

Spec == Init /\ [][Next]_vars

\* batch operations: each key is written with a value of its own
ValOf(k) == IF k = KA THEN "v1" ELSE "v2"

NextMany ==
  \/ \E keys \in KeyLists2 : GetMany("s1", keys)
  \/ \E ttl \in {Int_(1), NaN} : Set("s1", KA, ValOf(KA), ttl)
  \/ Set("s1", KnA, ValOf(KnA), Absent)
  \/ Sweep
  \/ Tick

SpecMany == Init /\ [][NextMany]_vars

\* batch deletes
NextDeleteMany ==
  \/ \E keys \in KeyLists2 : DeleteMany("s1", keys)
  \/ \E k \in Keys2, ttl \in ShortTTLs : Set("s1", k, ValOf(k), ttl)
  \/ \E k \in Keys2 : Get("s1", k)
  \/ Sweep
  \/ Tick

SpecDeleteMany == Init /\ [][NextDeleteMany]_vars

\* every kind of TTL argument, on one key, with reads, iteration and sweeps
NextTtl ==
  \/ Get("s1", KA)
  \/ \E keys \in {<<KA>>, <<KA, KA, KA>>} : GetMany("s1", keys)
  \/ \E ttl \in TTLs : Set("s1", KA, ValOf(KA), ttl)
  \/ Delete("s1", KA)
  \/ Iterator("s1", NoNamespace)
  \/ IterNext("s1")
  \/ Sweep
  \/ Tick

SpecTtl == InitAnyPlan /\ [][NextTtl]_vars

\* two stores on one database file, each with a namespace of its own
NextNs ==
  \/ \E s \in Stores, ns \in Namespaces : SetNamespace(s, ns)
  \/ \E k \in Keys : Get("s2", k)
  \/ \E k \in Keys : Set("s1", k, ValOf(k), Absent)
  \/ \E s \in Stores : Clear(s)

SpecNs == Init /\ [][NextNs]_vars

\* iteration over the whole table of one store, with writes, clear and expiry
NextIter ==
  \/ Get("s1", KA)
  \/ \E ttl \in ShortTTLs : Set("s1", KA, ValOf(KA), ttl)
  \/ Set("s1", KnA, ValOf(KnA), Absent)
  \/ Clear("s1")
  \/ Iterator("s1", NoNamespace)
  \/ IterNext("s1")
  \/ Sweep
  \/ Tick

SpecIter == InitAnyPlan /\ [][NextIter]_vars

\* paged iteration of keys that are each set once, for page sizes 1, 2 and
\* the default, under either plan
PageLimits == {Int_(1), Int_(2), Absent}

InitPage == InitWith(PageLimits, Plans)

\* a set of a key that has not been set before
SetOnce(s, k, v, ttl) == written[k] = NoWrite /\ Set(s, k, v, ttl)

NextPage ==
  \/ \E k \in Keys, ttl \in ShortTTLs : SetOnce("s1", k, ValOf(k), ttl)
  \/ Iterator("s1", NoNamespace)
  \/ IterNext("s1")
  \/ Tick

SpecPage == InitPage /\ [][NextPage]_vars

\* iteration of one namespace of a table that holds keys of several
NextNsIter ==
  \/ \E k \in Keys : Set("s1", k, ValOf(k), Absent)
  \/ \E ns \in Namespaces : Iterator("s1", ns)
  \/ IterNext("s1")

SpecNsIter == InitAnyPlan /\ [][NextNsIter]_vars

\* reads of two keys with sweeps run at any point, or never
NextSweep ==
  \/ \E k \in Keys2 : Get("s1", k)
  \/ \E keys \in {<<KA, KnA>>, <<KnA, KA, KA>>} : GetMany("s1", keys)
  \/ \E ttl \in TTLs : Set("s1", KA, ValOf(KA), ttl)
  \/ \E ttl \in ShortTTLs : Set("s1", KnA, ValOf(KnA), ttl)
  \/ Delete("s1", KA)
  \/ Clear("s1")
  \/ Sweep
  \/ Tick

SpecSweep == Init /\ [][NextSweep]_vars

\* every operation of one store that is disconnected at any point
NextClose ==
  \/ Get("s1", KA)
  \/ \E keys \in {<<>>, <<KA, KnA, KA>>} : GetMany("s1", keys)
  \/ \E k \in Keys2 : Set("s1", k, ValOf(k), Absent)
  \/ Delete("s1", KA)
  \/ \E keys \in {<<>>, <<KA, KnA>>} : DeleteMany("s1", keys)
  \/ Clear("s1")
  \/ Iterator("s1", NoNamespace)
  \/ IterNext("s1")
  \/ Disconnect("s1")

SpecClose == Init /\ [][NextClose]_vars

\* sets that the engine rejects (an absent value, a closed connection) and
\* sweeps that run after the disconnect
NextReject ==
  \/ Get("s1", KA)
  \/ \E ttl \in ShortTTLs : Set("s1", KA, ValOf(KA), ttl)
  \/ Set("s1", KnA, ValOf(KnA), Absent)
  \/ Set("s1", KA, Undefined, Absent)
  \/ Disconnect("s1")
  \/ Sweep
  \/ Tick

SpecReject == Init /\ [][NextReject]_vars

\* stores built one after the other on one database, in any runtime, with
\* any driver argument and any failure of the constructor
NextInit ==
  \/ \E s \in Stores, d \in DriverArgs, f \in Faults :
       Construct(s, DefaultTable, d, f)
  \/ \E s \in Stores, v \in Vals : Set(s, KA, v, Absent)
  \/ \E s \in Stores : Get(s, KA)

SpecInit == InitBare /\ [][NextInit]_vars

\* every operation of one store on two keys that expire, with sweeps run at
\* any point, or never
NextSchedule ==
  \/ \E k \in Keys2 : Get("s1", k)
  \/ GetMany("s1", <<KnA, KA, KA>>)
  \/ \E k \in Keys2 : SetOnce("s1", k, ValOf(k), Int_(1))
  \/ Delete("s1", KA)
  \/ DeleteMany("s1", <<KnA, KA>>)
  \/ Clear("s1")
  \/ Iterator("s1", NoNamespace)
  \/ IterNext("s1")
  \/ Sweep
  \/ Tick

SpecSchedule == Init /\ [][NextSchedule]_vars

\* paged iteration with sets, deletes, reads and sweeps between the pulls
InitInterleave == InitWith({Int_(1)}, Plans)

NextInterleave ==
  \/ \E ttl \in {Absent, Int_(1)} : SetOnce("s1", KA, ValOf(KA), ttl)
  \/ \E k \in {KnA, KNA} : SetOnce("s1", k, ValOf(k), Absent)
  \/ Delete("s1", KA)
  \/ Get("s1", KA)
  \/ Iterator("s1", NoNamespace)
  \/ IterNext("s1")
  \/ Sweep
  \/ Tick

SpecInterleave == InitInterleave /\ [][NextInterleave]_vars

\* the number of keys from which the set-membership statements are used
BatchThreshold == 3

\* the key lists up to the shortest that take the set-membership path
BatchLists == {keys \in KeyLists2 : Len(keys) <= BatchThreshold}

\* reads and deletes of key lists on either side of the threshold
NextBatch ==
  \/ \E keys \in BatchLists : GetMany("s1", keys)
  \/ \E keys \in BatchLists : DeleteMany("s1", keys)
  \/ \E k \in Keys2 : SetOnce("s1", k, ValOf(k), Int_(1))
  \/ Sweep
  \/ Tick

SpecBatch == Init /\ [][NextBatch]_vars

\* stores built on one database with either table name, and closed
NextSchema ==
  \/ \E s \in Stores, name \in TableNames, d \in {"auto", "node:sqlite"},
        f \in Faults : Construct(s, name, d, f)
  \/ \E s \in Stores : Disconnect(s)

SpecSchema == InitBare /\ [][NextSchema]_vars

\* iteration with every kind of iterationLimit: absent, 0, not a number,
\* negative, positive
AnyLimits == {Absent, Int_(0), NaN, Int_(-1), Int_(2)}

InitLimit == InitWith(AnyLimits, Plans)

NextLimit ==
  \/ \E ttl \in ShortTTLs : SetOnce("s1", KA, ValOf(KA), ttl)
  \/ \E k \in {KnA, KNA} : SetOnce("s1", k, ValOf(k), Absent)
  \/ Iterator("s1", NoNamespace)
  \/ IterNext("s1")
  \/ Tick

SpecLimit == InitLimit /\ [][NextLimit]_vars

----------------------------------------------------------------------------
(* Properties *)

HasRow(t, k) == k \in KeysOf(t)

\* an operation op was carried out in this step (a sweep only marks last.swept)
OpStep(op) == last'.op = op /\ last' # last /\ ~last'.swept

\* slot i of what the last read returned
Slot(i) == IF last.op = "get" THEN last.res ELSE last.res[i]

\* str starts with the literal string pre
StartsWith(str, pre) ==
  Len(str) >= Len(pre) /\ SubSeq(str, 1, Len(pre)) = pre

\* the set recorded in w was given a finite TTL > 0
TimedSet(w) == w.op = "set" /\ w.ttl.t = "int" /\ w.ttl.n > 0

\* the set recorded in w was given no TTL, or the TTL 0
UntimedSet(w) == w.op = "set" /\ (w.ttl = Absent \/ w.ttl = Int_(0))

\* the set recorded in w was given a negative, NaN or infinite TTL
InvalidTtlSet(w) ==
  w.op = "set" /\ ((w.ttl.t = "int" /\ w.ttl.n < 0) \/ w.ttl \in {NaN, Infinity})

\* C1: set(k, v) followed immediately by get(k) returns exactly v, whatever
\* the table held for k before and whatever sweeps are pending or have run.
C1_RoundTrip ==
  (last.op = "get" /\ prev.op = "set" /\ prev.keys = last.keys
     /\ prev.ttl = Absent)
  => last.res = prev.val

\* a get right after a set of the same key, while a sweep scheduled by an
\* earlier read of an expired row is still pending
C1_Witness ==
  /\ last.op = "get" /\ prev.op = "set" /\ prev.keys = last.keys
  /\ prev.ttl = Absent /\ last.res = prev.val
  /\ pending # <<>>

\* C2: no get or getMany returns the value of a row whose expiredAt is not -1
\* and is strictly less than the time of the read; the slot is not found.
C2_LazyExpiration ==
  last.op \in {"get", "getMany"} =>
    \A i \in 1..Len(last.keys) : \A j \in 1..Len(table) :
      (/\ table[j].cacheKey = last.keys[i]
       /\ table[j].expiredAt.t = "int"
       /\ table[j].expiredAt.n # -1
       /\ table[j].expiredAt.n < last.at)
      => Slot(i) = Undefined

\* a batch read of a row that is expired and still in the table
C2_Witness ==
  /\ last.op = "getMany" /\ Len(last.keys) = 3
  /\ \E j \in 1..Len(table) :
       /\ table[j].cacheKey = last.keys[1]
       /\ table[j].expiredAt.t = "int"
       /\ table[j].expiredAt.n > 0
       /\ table[j].expiredAt.n < last.at
  /\ last.res[1] = Undefined
  /\ pending # <<>>

\* C3: set(k, v, ttl) with a finite ttl > 0 at time t0 stores expiredAt =
\* t0 + ttl*1000, and while k is not written again get(k) at time t returns v
\* if t <= t0 + ttl*1000 and not found if t > t0 + ttl*1000.
C3_TtlDeadline ==
  /\ (last.op = "set" /\ TimedSet(last)) =>
       /\ HasRow(table, last.keys[1])
       /\ RowOf(table, last.keys[1]).expiredAt
            = Int_(last.at + last.ttl.n * 1000)
  /\ (last.op = "get" /\ TimedSet(written[last.keys[1]])) =>
       LET w == written[last.keys[1]]
       IN last.res = IF last.at <= w.at + w.ttl.n * 1000
                     THEN w.val ELSE Undefined

\* a get exactly at the deadline, which still returns the value
C3_Witness ==
  /\ last.op = "get" /\ TimedSet(written[last.keys[1]])
  /\ last.at = written[last.keys[1]].at + written[last.keys[1]].ttl.n * 1000
  /\ last.res = written[last.keys[1]].val

\* C4: a row set with the TTL absent or 0 has expiredAt = -1; until the key
\* is set again, deleted or cleared the row stays as written through every
\* sweep, read and lapse of time, get and getMany return its value, and an
\* iteration of the unchanged table yields it.
C4_NoTtlPermanence ==
  \A k \in Keys : UntimedSet(written[k]) =>
    /\ HasRow(table, k)
    /\ RowOf(table, k) = [cacheKey |-> k, cacheData |-> written[k].val,
                          createdAt |-> written[k].at, expiredAt |-> Int_(-1)]
    /\ (last.op \in {"get", "getMany"}) =>
         \A i \in 1..Len(last.keys) :
           last.keys[i] = k => Slot(i) = written[k].val
    /\ (iter.st = "done" /\ ~iter.dirty /\ iter.ns = NoNamespace) =>
         \E i \in 1..Len(iter.out) : iter.out[i] = <<k, written[k].val>>

\* a sweep has run after the set, time has passed, and the row is still there
C4_Witness ==
  /\ last.op = "set" /\ UntimedSet(written[last.keys[1]])
  /\ last.swept /\ now > last.at
  /\ HasRow(table, last.keys[1])

\* C5: set(k, v, ttl) with ttl negative, NaN or Infinity stores expiredAt = -1,
\* and get(k) returns v at every later time.
C5_InvalidTtlNoExpiry ==
  \A k \in Keys : InvalidTtlSet(written[k]) =>
    /\ HasRow(table, k)
    /\ RowOf(table, k).expiredAt = Int_(-1)
    /\ (last.op = "get" /\ last.keys = <<k>>) => last.res = written[k].val

\* expiredAt is -1, or a number (Infinity included) not less than ts
NotExpiredAt(e, ts) ==
  (e.t = "int" /\ (e.n = -1 \/ e.n >= ts)) \/ e.t = "inf"

\* C6: getMany(keys) returns a list as long as keys whose slot i is the value
\* stored for keys[i] if that key has a row that is not expired at the time of
\* the read, and not found otherwise.
C6_GetManySlots ==
  last.op = "getMany" =>
    /\ DOMAIN last.res = 1..Len(last.keys)
    /\ \A i \in 1..Len(last.keys) :
         LET live == {j \in 1..Len(table) :
                        /\ table[j].cacheKey = last.keys[i]
                        /\ NotExpiredAt(table[j].expiredAt, last.at)}
         IN last.res[i] = IF live = {} THEN Undefined
                          ELSE table[CHOOSE j \in live : TRUE].cacheData

\* a batch read, against table order, of a repeated key and of a key whose
\* row is expired but still in the table
C6_Witness ==
  /\ last.op = "getMany"
  /\ last.keys = <<KnA, KA, KnA>>
  /\ last.res = <<ValOf(KnA), Undefined, ValOf(KnA)>>
  /\ HasRow(table, KA)
  /\ table[1].cacheKey = KA

\* C7: delete(k) returns true iff a row for k was in the table, expired or
\* not; afterwards there is no row for k and every other row is unchanged.
C7_Delete ==
  [][OpStep("delete") =>
       LET k == last'.keys[1]
       IN /\ last'.res = HasRow(table, k)
          /\ ~HasRow(table', k)
          /\ table' = SelectSeq(table, LAMBDA r : r.cacheKey # k)]_vars

\* delete returned true for a row that had expired, and another row is left
C7_Witness ==
  /\ last.op = "delete" /\ last.res = TRUE
  /\ prev.op = "set" /\ prev.keys = last.keys
  /\ TimedSet(prev) /\ last.at > prev.at + prev.ttl.n * 1000
  /\ table # <<>>

\* C8: deleteMany(keys) returns true only if every requested key had a row;
\* when some requested key has no row it returns false, yet every requested
\* key that had a row is removed, the other rows are unchanged, and
\* getMany(keys) afterwards returns not found in every slot.
C8_DeleteMany ==
  [][OpStep("deleteMany") =>
       LET keys == last'.keys
       IN /\ last'.res = TRUE => \A i \in 1..Len(keys) : HasRow(table, keys[i])
          /\ (\E i \in 1..Len(keys) : ~HasRow(table, keys[i]))
               => last'.res = FALSE
          /\ \A i \in 1..Len(keys) : ~HasRow(table', keys[i])
          /\ table' = SelectSeq(table, LAMBDA r : ~InList(r.cacheKey, keys))
          /\ \A i \in 1..Len(keys) :
               GetManyResult(table', keys, now)[i] = Undefined]_vars

\* a batch delete that returned false although it removed the key set just
\* before it
C8_Witness ==
  /\ last.op = "deleteMany" /\ last.res = FALSE /\ Len(last.keys) = 3
  /\ prev.op = "set" /\ InList(prev.keys[1], last.keys)
  /\ ~HasRow(table, prev.keys[1])
  /\ table # <<>>

\* C9: clear on a store whose namespace is N removes exactly the rows whose
\* key starts with the literal string "N:" and leaves every other row as it was.
C9_ClearNamespace ==
  [][(OpStep("clear") /\ namespace[last'.store] # NoNamespace) =>
       table' = SelectSeq(table, LAMBDA r :
                  ~StartsWith(r.cacheKey, namespace[last'.store] \o <<":">>))]_vars

\* the first next() of an iterator
FirstPull == Len(iter.out) + (IF iter.st = "done" THEN 1 ELSE 0) = 1

\* C10: clear on a store with no namespace leaves the table empty, so that a
\* get after it returns not found and an iteration begun after it yields
\* nothing; a second clear in a row leaves the same empty table.
C10_ClearAll ==
  /\ (last.op = "clear" /\ namespace[last.store] = NoNamespace)
       => table = <<>>
  /\ (prev.op = "clear" /\ namespace[prev.store] = NoNamespace) =>
       /\ last.op = "get" => last.res = Undefined
       /\ (last.op = "next" /\ FirstPull) => (iter.st = "done" /\ iter.out = <<>>)
       /\ last.op = "clear" => table = <<>>

\* clear has removed a row that had expired and was still in the table
C10_Witness ==
  /\ last.op = "clear" /\ prev.op = "set" /\ TimedSet(prev)
  /\ last.at > prev.at + prev.ttl.n * 1000
  /\ ~prev.swept /\ pending = <<>>
  /\ table = <<>>

\* key k belongs to namespace ns: no namespace, or k starts with "ns:"
InNamespace(k, ns) == ns = NoNamespace \/ StartsWith(k, ns \o <<":">>)

\* the pairs of the rows of namespace ns that are unexpired at time ts
LivePairs(t, ns, ts) ==
  {<<t[j].cacheKey, t[j].cacheData>> : j \in
     {j \in 1..Len(t) : /\ InNamespace(t[j].cacheKey, ns)
                         /\ NotExpiredAt(t[j].expiredAt, ts)}}

\* an iteration has ended normally over a table that did not change
QuietlyDone == iter.st = "done" /\ ~iter.dirty /\ last.op = "next" /\ ~last.err

\* C11: an iteration over a table that is not modified yields every row of
\* the namespace that is unexpired at the start of the iteration (expiredAt is
\* -1 or not less than the start time) exactly once, as (cacheKey, cacheData),
\* and then ends, for every page size.
C11_IterationComplete ==
  QuietlyDone =>
    /\ {iter.out[i] : i \in 1..Len(iter.out)} = LivePairs(table, iter.ns, iter.time)
    /\ Len(iter.out) = Cardinality(LivePairs(table, iter.ns, iter.time))

\* the place of key k in rowid order
RowIdRank(k) == CHOOSE j \in 1..Len(table) : table[j].cacheKey = k

\* C12: for keys each set once, the pairs are yielded in the order in which
\* the keys were set, inside a page and across pages.
C12_IterationOrder ==
  (iter.st \in {"open", "done"} /\ ~iter.dirty) =>
    \A i, j \in 1..Len(iter.out) :
      i < j => RowIdRank(iter.out[i][1]) < RowIdRank(iter.out[j][1])

\* C13: iterator(ns) with a namespace yields no key that does not start with
\* the literal string "ns:", and when no row of the table starts with "ns:"
\* its first pull ends the iteration with nothing yielded.
C13_IterationScoped ==
  iter.ns # NoNamespace =>
    /\ \A i \in 1..Len(iter.out) : StartsWith(iter.out[i][1], iter.ns \o <<":">>)
    /\ (/\ last.op = "next" /\ FirstPull /\ ~iter.dirty
        /\ \A j \in 1..Len(table) :
             ~StartsWith(table[j].cacheKey, iter.ns \o <<":">>))
       => (iter.st = "done" /\ iter.out = <<>>)

\* C14: after disconnect() every operation on that store, a pull on an
\* iterator created before the disconnect included, fails with an error.
C14_CloseInvalidates ==
  (/\ sqlite[last.store] = Closed
   /\ last.op \in {"get", "getMany", "set", "delete", "deleteMany", "clear",
                    "next"})
  => last.err

\* the payload stored for an absent value
NullData == "null"

\* C15: set(k, undefined) on an open store does not fail, and a row for k
\* with a null payload exists afterwards.
C15_AbsentPayload ==
  (last.op = "set" /\ last.val = Undefined /\ sqlite[last.store] = Open) =>
    /\ ~last.err
    /\ HasRow(table, last.keys[1])
    /\ RowOf(table, last.keys[1]).cacheData = NullData

\* expiredAt of a set with no TTL, the TTL 0 or a finite TTL > 0
DeadlineFor(ttl, at) ==
  IF ttl \in {Absent, Int_(0)} THEN Int_(-1) ELSE Int_(at + ttl.n * 1000)

\* C16: the table holds at most one row per cacheKey, and a set that succeeds
\* leaves for its key one row with the new cacheData, createdAt and expiredAt
\* (whatever row the key had) and every row of another key unchanged.
C16_Upsert ==
  [][/\ Cardinality(KeysOf(table')) = Len(table')
     /\ (OpStep("set") /\ ~last'.err) =>
          LET k == last'.keys[1]
          IN /\ RowOf(table', k) =
                  [cacheKey |-> k, cacheData |-> last'.val, createdAt |-> now,
                   expiredAt |-> DeadlineFor(last'.ttl, now)]
             /\ SelectSeq(table', LAMBDA r : r.cacheKey # k)
                  = SelectSeq(table, LAMBDA r : r.cacheKey # k)]_vars

\* a set without TTL over a row whose TTL had run out, next to another row
C16_Witness ==
  /\ last.op = "set" /\ last.ttl = Absent
  /\ prev.op = "set" /\ prev.keys = last.keys /\ TimedSet(prev)
  /\ last.at > prev.at + prev.ttl.n * 1000
  /\ Len(table) = 2
  /\ RowOf(table, last.keys[1]).expiredAt = Int_(-1)
  /\ RowOf(table, last.keys[1]).createdAt = last.at

\* C17: every row's expiredAt is -1 or a strictly positive number of
\* milliseconds not less than the row's createdAt.
C17_TimestampInvariant ==
  \A j \in 1..Len(table) :
    \/ table[j].expiredAt = Int_(-1)
    \/ /\ table[j].expiredAt.t = "int"
       /\ table[j].expiredAt.n > 0
       /\ table[j].expiredAt.n >= table[j].createdAt

\* what a read of key k at time ts returns from the table on which no sweep
\* has ever run: the value of the latest set of k, unless k was deleted or
\* cleared since or that row is expired at ts
UnsweptRead(k, ts) ==
  LET w == written[k]
  IN IF w.op = "set" /\ ~IsExpired(BindNumber(ExpiredAtFor(w.ttl, w.at)), ts)
     THEN w.val ELSE Undefined

\* C18: whatever sweeps have run, and whenever, every get and getMany returns
\* what it would return had no sweep ever run.
C18_ReadsIgnoreSweep ==
  (last.op \in {"get", "getMany"} /\ ~last.err) =>
    \A i \in 1..Len(last.keys) : Slot(i) = UnsweptRead(last.keys[i], last.at)

\* a batch read after a sweep took one of its keys out of the table, while
\* the other key, whose TTL has not run out, is returned
C18_Witness ==
  /\ last.op = "getMany" /\ last.keys = <<KnA, KA, KA>>
  /\ written[KA].op = "set" /\ ~HasRow(table, KA)
  /\ TimedSet(written[KnA]) /\ last.res[1] = ValOf(KnA)
  /\ last.res[2] = Undefined
  /\ pending = <<>>

\* C19: a purge sweep that fails when it runs, its connection having been
\* closed since the read that scheduled it, raises nothing to the process.
C19_SweepFailureSwallowed ==
  [][(/\ pending # <<>>
      /\ pending' = Tail(pending)
      /\ sqlite[Head(pending).store] = Closed)
     => ~uncaught']_vars

\* C20: set(k, v, ttl) either resolves with v with the whole row (v,
\* createdAt, expiredAt) in the table, or rejects and leaves the table as it
\* was before the call.
C20_SetAllOrNothing ==
  [][OpStep("set") =>
       IF last'.err THEN table' = table
       ELSE /\ last'.res = last'.val
            /\ HasRow(table', last'.keys[1])
            /\ RowOf(table', last'.keys[1]) =
                 [cacheKey |-> last'.keys[1], cacheData |-> last'.val,
                  createdAt |-> now, expiredAt |-> DeadlineFor(last'.ttl, now)]]_vars

\* a set rejected by a closed connection, with the rows written before it
\* still in the table
C20_Witness ==
  /\ last.op = "set" /\ last.err /\ last.val # Undefined
  /\ sqlite[last.store] = Closed
  /\ Len(table) = 2

\* C21: constructing a store on a database that already holds the table
\* changes no row, and a get through any store open on the database returns
\* the value last written for the key through any of them.
C21_IdempotentInit ==
  [][/\ OpStep("new") => table' = table
     /\ (OpStep("get") /\ ~last'.err /\ written[KA].op = "set")
          => last'.res = written[KA].val]_vars

\* a second store was built on the database after the first store wrote a row
C21_Witness ==
  /\ last.op = "new" /\ ~last.err
  /\ prev.op = "set" /\ prev.store # last.store
  /\ HasRow(table, KA)
  /\ \A s \in Stores : sqlite[s] = Open

\* the driver d cannot be had in the runtime rt
Unavailable(rt, d) ==
  \/ d \in DriverNames /\ d \notin rt.loaded
  \/ d = "sqlite3"
  \/ d = "auto" /\ rt.loaded = {}

\* C22: the constructor throws, and builds no store, when the requested
\* driver is unavailable, the database cannot be opened or the DDL fails; a
\* store built with a named driver runs that driver, and only "auto" resolves
\* to a driver other than the one asked for.
C22_InitFailsWhole ==
  [][OpStep("new") =>
       LET s == last'.store
           d == last'.val.driver
           f == last'.val.fault
       IN /\ (f # "none" \/ Unavailable(runtime, d)) => last'.err
          /\ last'.err => (sqlite'[s] = None /\ table' = table)
          /\ ~last'.err => (sqlite'[s] = Open /\ last'.res \in runtime.loaded \cup {Custom})
          /\ (~last'.err /\ last'.res # d) => d = "auto"]_vars

\* a named driver that did not load was asked for while another driver was
\* loaded, and the constructor threw
C22_Witness ==
  /\ last.op = "new" /\ last.err
  /\ last.val.driver \in DriverNames /\ last.val.fault = "none"
  /\ runtime.loaded # {}
  /\ sqlite[last.store] = None

\* the read of keys at ts met a row it takes as expired
SawExpired(t, keys, ts) ==
  \E i \in 1..Len(keys) : \E j \in 1..Len(t) :
    t[j].cacheKey = keys[i] /\ ~NotExpiredAt(t[j].expiredAt, ts)

\* C23: a get or getMany queues exactly one sweep, with the time of the read,
\* when a row of a key it asked for is expired, however many are, and none
\* otherwise; nothing else queues a sweep; a sweep is queued whatever sweeps
\* are pending already.
C23_ScheduleCount ==
  [][/\ ((OpStep("get") \/ OpStep("getMany")) /\ ~last'.err) =>
          pending' = IF SawExpired(table, last'.keys, now)
                     THEN Append(pending, [ts |-> now, store |-> last'.store])
                     ELSE pending
     /\ Len(pending') > Len(pending) =>
          /\ last'.op \in {"get", "getMany"} /\ ~last'.swept
          /\ SawExpired(table, last'.keys, now)
          /\ pending' = Append(pending, [ts |-> now, store |-> last'.store])]_vars

\* a getMany that met two expired rows while a sweep of the same instant was
\* pending left two pending sweeps
C23_Witness ==
  /\ last.op = "getMany" /\ Len(pending) = 2
  /\ pending[1] = pending[2] /\ pending[2].ts = last.at
  /\ \A k \in Keys2 : HasRow(table, k) /\ SawExpired(table, <<k>>, last.at)

\* C24: the step in which a read computes what it returns removes no row and
\* runs no sweep, the one it queues included; a sweep runs as a step of its
\* own, which changes the result of no read.
C24_SweepAfterRead ==
  [][/\ (/\ last'.op \in {"get", "getMany"} /\ ~last'.swept
         /\ (last' # last \/ pending' # pending)) =>
          /\ table' = table
          /\ Len(pending') >= Len(pending)
          /\ SubSeq(pending', 1, Len(pending)) = pending
     /\ (pending # <<>> /\ pending' = Tail(pending)) =>
          /\ last'.op = last.op /\ last'.res = last.res
          /\ last'.swept]_vars

\* a get returned, and the sweep it queued then removed the row it had met
C24_Witness ==
  /\ last.op = "get" /\ last.swept /\ last.res = Undefined
  /\ written[last.keys[1]].op = "set"
  /\ ~HasRow(table, last.keys[1])
  /\ pending = <<>>

\* the rows of t, as a set
RowsOf(t) == {t[i] : i \in 1..Len(t)}

\* C25: a sweep with timestamp ts removes every row with expiredAt # -1 and
\* expiredAt < ts, whatever its key, and leaves every row with expiredAt = -1
\* or expiredAt >= ts as it was, in the order the rows had.
C25_SweepEffect ==
  [][(pending # <<>> /\ pending' = Tail(pending) /\ ~uncaught') =>
       LET ts == Head(pending).ts
       IN /\ \A r \in RowsOf(table) :
               (r.expiredAt.t = "int" /\ r.expiredAt.n # -1 /\ r.expiredAt.n < ts)
                 => ~HasRow(table', r.cacheKey)
          /\ \A r \in RowsOf(table) :
               NotExpiredAt(r.expiredAt, ts) => r \in RowsOf(table')
          /\ table' = SelectSeq(table, LAMBDA r : r \in RowsOf(table'))]_vars

\* a sweep that ran after a get of one key removed the expired row of another
\* key, in another namespace, and left the row of the key that was read
C25_Witness ==
  /\ last.op = "get" /\ last.swept /\ last.keys = <<KA>>
  /\ pending = <<>>
  /\ HasRow(table, KA)
  /\ written[KnA].op = "set" /\ ~HasRow(table, KnA)

\* the row of the set recorded in w is live at ts: the set was given no TTL or
\* one that is not a finite number > 0, or its deadline has not passed
LiveWrite(w, ts) ==
  w.op = "set" /\ (TimedSet(w) => w.at + w.ttl.n * 1000 >= ts)

\* C26: a sweep removes no row that is live when it runs, whatever TTL
\* argument the row was set with; a key that was set again after the sweep
\* was queued, and whose row is live, is returned by get after the sweep.
C26_SweepSparesLive ==
  [][(pending # <<>> /\ pending' = Tail(pending) /\ ~uncaught') =>
       \A k \in Keys2 :
         (HasRow(table, k) /\ LiveWrite(written[k], now)) =>
           /\ HasRow(table', k)
           /\ (last.op = "set" /\ last.keys = <<k>>) =>
                GetResult(table', k, now) = written[k].val]_vars

\* the table after the sweeps with the timestamps tss, run in that order
RECURSIVE PurgeAll(_, _)
PurgeAll(t, tss) ==
  IF tss = <<>> THEN t ELSE PurgeAll(Purge(t, Head(tss)), Tail(tss))

\* the latest timestamp of the pending sweeps
LastTs == CHOOSE ts \in {pending[i].ts : i \in 1..Len(pending)} :
            \A i \in 1..Len(pending) : pending[i].ts <= ts

\* C27: the pending sweeps, run in any order with nothing in between, leave
\* the table that the one sweep with the latest of their timestamps leaves,
\* and a sweep run again with its timestamp removes nothing.
C27_SweepsIdempotent ==
  pending # <<>> =>
    /\ \A p \in Permutations(1..Len(pending)) :
         PurgeAll(table, [i \in 1..Len(pending) |-> pending[p[i]].ts])
           = Purge(table, LastTs)
    /\ \A i \in 1..Len(pending) :
         Purge(Purge(table, pending[i].ts), pending[i].ts)
           = Purge(table, pending[i].ts)

\* two sweeps with different timestamps are pending, the earlier one has a
\* row to remove and the later one has that row and another
C27_Witness ==
  /\ Len(pending) = 2 /\ pending[1].ts < pending[2].ts
  /\ Purge(table, pending[1].ts) # table
  /\ Purge(table, pending[2].ts) # Purge(table, pending[1].ts)

\* C28: the cutoff of an iteration is the time of its first pull and stays
\* the same for every page; over a table that is not modified, a row that is
\* unexpired at the cutoff is yielded, whatever the time at which its page is
\* fetched, and a row that is expired at the cutoff is not.
C28_FixedCutoff ==
  [][/\ (iter.st = "new" /\ iter'.st \in {"open", "done"}) => iter'.time = now
     /\ (iter.st = "open" /\ iter'.st \in {"open", "done"}) =>
          iter'.time = iter.time
     /\ (iter'.st = "done" /\ ~iter'.dirty /\ last'.op = "next") =>
          \A r \in RowsOf(table') :
            InNamespace(r.cacheKey, iter'.ns) =>
              (NotExpiredAt(r.expiredAt, iter'.time)
                 <=> \E i \in 1..Len(iter'.out) :
                       iter'.out[i] = <<r.cacheKey, r.cacheData>>)]_vars

\* the rows of the table that the page queries of the iteration match
Matching ==
  {r \in RowsOf(table) : /\ InNamespace(r.cacheKey, iter.ns)
                          /\ FinderMatches(r.expiredAt, iter.time)}

\* C29 as stated: the offset of a page query is the number of rows yielded so
\* far, and an iteration over a table that is not modified, with n matching
\* rows and page size L, ends after floor(n/L) + 1 page queries.
C29_PaginationFloor ==
  /\ iter.st \in {"open", "done"} => iter.offset = Len(iter.out)
  /\ QuietlyDone =>
       iter.queries = (Cardinality(Matching) \div iter.limit) + 1

\* C29: the offset of a page query is the number of rows yielded so far, and
\* an iteration over a table that is not modified, with n matching rows and
\* page size L, ends at the first page that returns no row, after
\* ceil(n/L) + 1 page queries.
C29_Pagination ==
  /\ iter.st \in {"open", "done"} => iter.offset = Len(iter.out)
  /\ QuietlyDone =>
       /\ Len(iter.out) = Cardinality(Matching)
       /\ iter.queries =
            ((Cardinality(Matching) + iter.limit - 1) \div iter.limit) + 1

\* an iteration with page size 2 over three matching rows ended after a full
\* page, a short page and an empty page
C29_Witness ==
  /\ QuietlyDone /\ iter.limit = 2
  /\ Cardinality(Matching) = 3 /\ Len(iter.out) = 3
  /\ iter.queries = 3

\* C30: creating an iterator and pulling from it, up to any point, changes no
\* row of the table and queues no sweep, whatever rows have expired.
C30_IterationReadOnly ==
  [][(\/ iter'.st = "new" /\ iter' # iter
      \/ last'.op = "next" /\ ~last'.swept /\ iter' # iter) =>
       /\ table' = table
       /\ pending' = pending]_vars

\* an iteration ran to its end over a table that holds a row expired at its
\* cutoff, and no sweep is pending
C30_Witness ==
  /\ iter.st = "done" /\ ~iter.dirty /\ last.op = "next" /\ ~last.swept
  /\ pending = <<>>
  /\ \E r \in RowsOf(table) : ~NotExpiredAt(r.expiredAt, iter.time)
  /\ \E r \in RowsOf(table) : r \in Matching

\* the number of times the pair of row r was yielded
TimesYielded(r) ==
  Cardinality({i \in 1..Len(iter.out) : iter.out[i] = <<r.cacheKey, r.cacheData>>})

\* C31: whatever set, delete or sweep of other keys ran between the pulls, an
\* iteration that has ended has yielded exactly once every row of its
\* namespace that was written before it began, is still as it was written,
\* and is unexpired at the cutoff (expiredAt is -1 or after the cutoff).
C31_IterationInterleaved ==
  (iter.st = "done" /\ last.op = "next" /\ ~last.err) =>
    \A r \in RowsOf(table) :
      (/\ r.createdAt < iter.time
       /\ InNamespace(r.cacheKey, iter.ns)
       /\ FinderMatches(r.expiredAt, iter.time))
      => TimesYielded(r) = 1

\* keys without the repetitions of a key
RECURSIVE Distinct(_)
Distinct(keys) ==
  IF keys = <<>> THEN <<>>
  ELSE <<Head(keys)>> \o Distinct(SelectSeq(Tail(keys), LAMBDA k : k # Head(keys)))

\* C32: for every key list and table, getMany(keys) is the list of what get
\* returns for each key at that instant, and deleteMany(keys) leaves the
\* table, and counts the removed rows, as delete of each distinct key one by
\* one does, whichever path the length of the list selects.
C32_BatchPerKeyAgree ==
  [][/\ (OpStep("getMany") /\ ~last'.err) =>
          last'.res = [i \in 1..Len(last'.keys) |->
                         GetResult(table, last'.keys[i], now)]
     /\ OpStep("deleteMany") =>
          LET singly == DeleteEach(table, Distinct(last'.keys))
          IN /\ table' = singly.table
             /\ DeleteCaches(table, last'.keys).changes = singly.changes
             /\ last'.res = (singly.changes = Len(last'.keys))]_vars

\* a deleteMany on the batch path, with a key named twice, emptied a table
\* that held the rows of both keys
C32_Witness ==
  /\ last.op = "deleteMany" /\ last.keys = <<KA, KnA, KA>>
  /\ last.res = FALSE
  /\ prev.op = "set"
  /\ table = <<>>

\* C33: the keys yielded by an iteration with no namespace over a table that
\* is not modified are the keys for which get, at the instant of the cutoff,
\* returns a value, a row whose expiredAt is the cutoff included.
C33_GetIteratorAgree ==
  (QuietlyDone /\ iter.ns = NoNamespace) =>
    {iter.out[i][1] : i \in 1..Len(iter.out)}
      = {k \in Keys : GetResult(table, k, iter.time) # Undefined}

\* C34: deleteMany(keys) returns true exactly when the number of rows it
\* removed is the length of keys: with no key it returns true and changes
\* nothing, and with a key that has a row named twice it returns false and
\* removes the row.
C34_DeleteManyCount ==
  [][OpStep("deleteMany") =>
       LET keys == last'.keys
       IN /\ last'.res = (Len(table) - Len(table') = Len(keys))
          /\ keys = <<>> => (last'.res = TRUE /\ table' = table)
          /\ \A i, j \in 1..Len(keys) :
               (i < j /\ keys[i] = keys[j] /\ HasRow(table, keys[i]))
                 => (last'.res = FALSE /\ ~HasRow(table', keys[i]))]_vars

\* deleteMany of one key named twice returned false and removed the row that
\* the set before it had written
C34_Witness ==
  /\ last.op = "deleteMany" /\ last.keys = <<KA, KA>> /\ last.res = FALSE
  /\ prev.op = "set" /\ prev.keys = <<KA>>
  /\ ~HasRow(table, KA)

\* C35: once the constructor has returned a store, the table the store was
\* built on has an index on its expiredAt column, whatever tables the other
\* stores of the database were built on.
C35_IndexPerTable ==
  \A s \in Stores :
    sqlite[s] \in {Open, Closed} =>
      /\ tableName[s] \in schema.tables
      /\ schema.idx_expired_caches = tableName[s]

\* C36: the page size of an iteration is iterationLimit when that is an
\* integer other than 0, and 10 otherwise; whatever it is, a negative one
\* included, an iteration over a table that is not modified yields only
\* matching rows, none of them twice, and has yielded each of them once when
\* it ends.
C36_PageSize ==
  /\ iter.st \in {"open", "done"} =>
       iter.limit = IF opts.iterationLimit.t = "int" /\ opts.iterationLimit.n # 0
                    THEN opts.iterationLimit.n ELSE 10
  /\ (iter.st \in {"open", "done"} /\ ~iter.dirty) =>
       /\ \A i \in 1..Len(iter.out) :
            \E r \in Matching : iter.out[i] = <<r.cacheKey, r.cacheData>>
       /\ \A r \in Matching : TimesYielded(r) <= 1
  /\ QuietlyDone => \A r \in Matching : TimesYielded(r) = 1

\* an iteration with iterationLimit -1 took the three rows of the table in
\* one page and ended at its second query
C36_Witness ==
  /\ QuietlyDone /\ opts.iterationLimit = Int_(-1) /\ iter.limit = -1
  /\ Len(iter.out) = 3 /\ Cardinality(Matching) = 3
  /\ iter.queries = 2

\* the driver "auto" stands for in runtime rt, NoClass when there is none
AutoChoice(rt) ==
  IF rt.isBrowser THEN NoClass
  ELSE IF rt.isBun /\ "bun:sqlite" \in rt.loaded THEN "bun:sqlite"
  ELSE IF rt.isBun /\ "better-sqlite3" \in rt.loaded THEN "better-sqlite3"
  ELSE IF "node:sqlite" \in rt.loaded THEN "node:sqlite"
  ELSE IF ~rt.isBun /\ "better-sqlite3" \in rt.loaded THEN "better-sqlite3"
  ELSE NoClass

\* C37: with driver "auto" a store is built on the first available driver in
\* the order bun:sqlite, better-sqlite3, node:sqlite under Bun and node:sqlite,
\* better-sqlite3 otherwise, and the constructor throws when there is none or
\* in a browser or worker; a driver class passed directly is used as it is;
\* the class chosen for a driver argument is cached, and a later call with
\* that argument gets the cached class.
C37_AutoDetection ==
  [][OpStep("new") =>
       LET d == last'.val.driver
       IN /\ (d = "auto" /\ AutoChoice(runtime) = NoClass) => last'.err
          /\ (d = "auto" /\ ~last'.err) => last'.res = AutoChoice(runtime)
          /\ (d = Custom /\ ~last'.err) => last'.res = Custom
          /\ ~last'.err => databaseClassCache'[d] = last'.res
          /\ \A a \in DriverArgs :
               databaseClassCache[a] # NoClass =>
                 /\ databaseClassCache'[a] = databaseClassCache[a]
                 /\ (d = a /\ ~last'.err) => last'.res = databaseClassCache[a]]_vars

\* under Bun, with bun:sqlite not loaded, "auto" chose better-sqlite3 although
\* node:sqlite was loaded, and the second store got the cached choice
C37_Witness ==
  /\ last.op = "new" /\ ~last.err /\ last.val.driver = "auto"
  /\ runtime.isBun /\ runtime.loaded = {"better-sqlite3", "node:sqlite"}
  /\ last.res = "better-sqlite3"
  /\ \A s \in Stores : sqlite[s] = Open
  /\ databaseClassCache["auto"] = "better-sqlite3"

====
